---- MODULE Spec2Model ----
(***************************************************************************)
(* Model of hnsw-iris: the iris template data model (src/src/iris.rs) and  *)
(* the benchmark harness (src/src/main.rs).                                *)
(*                                                                         *)
(* A u64 word is represented by the set of its set bit positions, a subset *)
(* of 0..63: `|` is union, `&` is intersection, `^` is symmetric           *)
(* difference, `!` is complement in 0..63, `1u64 << bit` is {bit} and      *)
(* count_ones is cardinality.  An IrisCodeArray is the sequence of its     *)
(* IRIS_CODE_SIZE_U64 words (Rust index w is TLA+ index w + 1).            *)
(***************************************************************************)
EXTENDS Integers, Sequences, FiniteSets, TLC

(***************************************************************************)
(* Program constants.                                                      *)
(***************************************************************************)
IRIS_CODE_SIZE == 128
U64_BITS == 64
KNBN == 1
IRIS_CODE_SIZE_U64 == (IRIS_CODE_SIZE + (U64_BITS - 1)) \div U64_BITS

(***************************************************************************)
(* Bounds of the model.  The benchmark's dataset size and query count are  *)
(* scaled down; MaxEvals caps the evaluation counter: the index calls the   *)
(* distance function only while the counter is below it.                   *)
(***************************************************************************)
N_POINTS == 3
RANDOM_QUERIES == 2
MaxEvals == 1

WordBits == 0 .. (U64_BITS - 1)
BitIndex == 0 .. (IRIS_CODE_SIZE - 1)
WordIndex == 1 .. IRIS_CODE_SIZE_U64

(***************************************************************************)
(* IrisCodeArray                                                           *)
(***************************************************************************)
ZERO == [w \in WordIndex |-> {}]
ONES == [w \in WordIndex |-> WordBits]

set_bit(a, i, val) ==
    LET word == i \div U64_BITS
        bit  == i % U64_BITS
    IN  IF val
        THEN [a EXCEPT ![word + 1] = @ \cup {bit}]
        ELSE [a EXCEPT ![word + 1] = @ \cap (WordBits \ {bit})]

get_bit(a, i) ==
    LET word == i \div U64_BITS
        bit  == i % U64_BITS
    IN  bit \in a[word + 1]

flip_bit(a, i) ==
    LET word == i \div U64_BITS
        bit  == i % U64_BITS
    IN  [a EXCEPT ![word + 1] = (@ \ {bit}) \cup ({bit} \ @)]

RECURSIVE SumOnes(_, _)
SumOnes(a, w) ==
    IF w > Len(a) THEN 0 ELSE Cardinality(a[w]) + SumOnes(a, w + 1)

count_ones(a) == SumOnes(a, 1)

BitAnd(a, b) == [w \in WordIndex |-> a[w] \cap b[w]]
BitXor(a, b) == [w \in WordIndex |-> (a[w] \ b[w]) \cup (b[w] \ a[w])]

\* The array whose set bits are exactly the positions in s (what a random
\* fill of the underlying bytes can produce, for any s).
ArrayOfBits(s) ==
    [w \in WordIndex |-> {i % U64_BITS : i \in {j \in s : j \div U64_BITS = w - 1}}]

BitsOf(a) == {i \in BitIndex : get_bit(a, i)}

(***************************************************************************)
(* IrisCode                                                                *)
(***************************************************************************)
\* Fault: the mask words are written before the code words.
as_merged_array_swapped(t) == t.mask \o t.code

\* res[0..U64] = code words, res[U64..] = mask words.
as_merged_array(t) ==
    LET res == [k \in 1 .. (IRIS_CODE_SIZE_U64 + IRIS_CODE_SIZE_U64) |-> {}]
        withCode == [k \in DOMAIN res |->
                        IF k <= IRIS_CODE_SIZE_U64 THEN t.code[k] ELSE res[k]]
    IN  [k \in DOMAIN res |->
            IF k > IRIS_CODE_SIZE_U64 THEN t.mask[k - IRIS_CODE_SIZE_U64]
            ELSE withCode[k]]

\* Fault: one draw per cleared bit instead of one per cleared pair.
NDRAWS_unhalved == IRIS_CODE_SIZE \div 10

\* Number of iterations of the mask-clearing loop.
NDRAWS == (IRIS_CODE_SIZE \div 10) \div 2

\* Fault: the pair index is used as a bit index.
ClearPair_unscaled(mask, i) == set_bit(set_bit(mask, i, FALSE), i + 1, FALSE)

\* One iteration of the loop body, for the drawn pair index i.
ClearPair(mask, i) == set_bit(set_bit(mask, 2 * i, FALSE), 2 * i + 1, FALSE)

RECURSIVE ClearLoop(_, _, _)
ClearLoop(mask, draws, n) ==
    IF n > Len(draws) THEN mask
    ELSE ClearLoop(ClearPair(mask, draws[n]), draws, n + 1)

\* random_rng with the rng's outputs made explicit: bits is the random fill
\* of the code, draws the NDRAWS results of gen_range(0..IRIS_CODE_SIZE/2).
IrisCode_random_rng(bits, draws) ==
    [code |-> ArrayOfBits(bits), mask |-> ClearLoop(ONES, draws, 1)]

NaN == [class |-> "nan", num |-> 0, den |-> 0]
Inf == [class |-> "inf", num |-> 1, den |-> 0]

\* IEEE-754 division of two non-negative integers converted to f64: no trap,
\* 0/0 is NaN and n/0 is +inf.
F64Div(n, d) ==
    IF d = 0 THEN (IF n = 0 THEN NaN ELSE Inf)
    ELSE [class |-> "finite", num |-> n, den |-> d]

\* IEEE-754 ==: NaN compares unequal to everything, itself included.
F64Eq(x, y) ==
    /\ x.class # "nan"
    /\ y.class # "nan"
    /\ x.class = y.class
    /\ x.num * y.den = y.num * x.den

get_distance(a, b) ==
    LET combined_mask     == BitAnd(a.mask, b.mask)
        combined_mask_len == count_ones(combined_mask)
        combined_code     == BitAnd(BitXor(a.code, b.code), combined_mask)
        code_distance     == count_ones(combined_code)
    IN  F64Div(code_distance, combined_mask_len)

\* The body of the loop `for i in 0..IRIS_CODE_SIZE` of get_similar_iris,
\* with the two Bernoulli samples of iteration i given: flipCode, flipMask.
SimilarStep(res, i, flipCode, flipMask) ==
    [code |-> IF flipCode THEN flip_bit(res.code, i) ELSE res.code,
     mask |-> IF flipMask THEN flip_bit(res.mask, i) ELSE res.mask]

\* get_similar_iris with the Bernoulli samples made explicit: codeFlips and
\* maskFlips are the positions whose sample came out true.  Iteration i is
\* the only one that writes position i, so position i of the result is
\* position i of the clone after iteration i alone.
get_similar_iris(t, codeFlips, maskFlips) ==
    LET after(i) == SimilarStep(t, i, i \in codeFlips, i \in maskFlips)
    IN  [code |-> ArrayOfBits({i \in BitIndex : get_bit(after(i).code, i)}),
         mask |-> ArrayOfBits({i \in BitIndex : get_bit(after(i).mask, i)})]

(***************************************************************************)
(* Distance adapter (HD)                                                   *)
(***************************************************************************)
Panic == <<"panic">>

\* try_cast_slice(..).unwrap().try_into().unwrap(): the slice as an array of
\* exactly IRIS_CODE_SIZE_U64 words, a panic for any other length.
to_array(code) == IF Len(code) = IRIS_CODE_SIZE_U64 THEN code ELSE Panic

\* The two halves HD::eval cuts a flat vector into.
HD_split(v) ==
    [code |-> to_array(SubSeq(v, 1, IRIS_CODE_SIZE_U64)),
     mask |-> to_array(SubSeq(v, IRIS_CODE_SIZE_U64 + 1, Len(v)))]

\* `as f32`: NaN and inf are kept; a finite ratio n/d with d <= 128 is
\* rounded to the nearest f32, and two different such ratios differ by more
\* than 2^-14, so they round to different f32 values: the rounded value is
\* identified by the reduced ratio.
RECURSIVE Gcd(_, _)
Gcd(x, y) == IF y = 0 THEN x ELSE Gcd(y, x % y)

AsF32(x) ==
    IF x.class # "finite" THEN x
    ELSE LET g == Gcd(x.num, x.den)
         IN  [class |-> "finite", num |-> x.num \div g, den |-> x.den \div g]

HD_eval(va, vb) == AsF32(get_distance(HD_split(va), HD_split(vb)))

(***************************************************************************)
(* State.                                                                  *)
(* Template bench (iris.rs, and the adapter of main.rs): two templates as  *)
(* the insert closure draws them, a noisy variant of the first as the      *)
(* query closure derives it, and the results of the operations on them.    *)
(***************************************************************************)
VARIABLES
    ta,             \* a template produced by IrisCode::random_rng
    ta_kind,        \* "none" before it is generated, then "random"
    tb,             \* a second template produced by IrisCode::random_rng
    tb_kind,        \* "none" before it is generated, then "random"
    tq,             \* ta.get_similar_iris(rng)
    tq_kind,        \* "none" before it is derived, then "similar"
    dist,           \* [done, ab, ba]: get_distance(ta, tb) and get_distance(tb, ta)
    dist_q,         \* [done, ab, ba]: get_distance(tq, ta) and get_distance(ta, tq)
    adapter         \* [done, code1, code2, ret]: the templates HD::eval rebuilt, and its result

(***************************************************************************)
(* Benchmark harness (main.rs).                                            *)
(***************************************************************************)
VARIABLES
    pc,                     \* position of main
    rng_outcome,            \* per id: the template its worker's thread_rng will deliver
    random_query_indices,   \* the sampled query ids
    ins_st,                 \* per id: "todo", "inserting", "done" (the insert closure)
    ins_code,               \* per id: the closure's local `code`
    random_queries,         \* the Mutex-guarded vector of (code, idx)
    hnsw_points,            \* the index's content: id -> flat vector
    hnsw_searching,         \* the index's searching-mode flag
    set_searching_calls,    \* number of set_searching_mode calls made
    EVAL_COUNTER,           \* the global AtomicUsize
    random_queries_vec,     \* the snapshot of random_queries
    q_st,                   \* per snapshot entry: "todo", "searching", "done", "panicked"
    q_knn,                  \* per snapshot entry: the neighbours search returned
    correct,                \* the correct-match AtomicUsize
    evals_insert_phase,     \* history: HD::eval calls made by insert_slice calls
    evals_query_phase,      \* history: HD::eval calls made by search calls
    report                  \* [evals_read, avg_evals, recall_num, recall_den], -1 = not printed

irisVars == <<ta, ta_kind, tb, tb_kind, tq, tq_kind, dist, dist_q, adapter>>
mainVars == <<pc, rng_outcome, random_query_indices, ins_st, ins_code, random_queries,
              hnsw_points, hnsw_searching, set_searching_calls, EVAL_COUNTER,
              random_queries_vec, q_st, q_knn, correct,
              evals_insert_phase, evals_query_phase, report>>
vars == <<irisVars, mainVars>>

(***************************************************************************)
(* Inputs: what the random number generator may deliver, cut down to small *)
(* sets that still contain repeated draws, six distinct pairs, pairs on    *)
(* both sides of the word boundary and disjoint sets of pairs.             *)
(***************************************************************************)
PairIndex == 0 .. ((IRIS_CODE_SIZE \div 2) - 1)
CodeChoices == {{}, BitIndex, {0, 63, 64, 127}}
DrawStarts == {0, 6, 29}
DrawStrides == {0, 1, 32}
RepeatPairs == {0, 63}
StrideDraws(s, d) == [j \in 1 .. NDRAWS |-> (s + (j - 1) * d) % (IRIS_CODE_SIZE \div 2)]
DrawSeqs == {StrideDraws(s, d) : s \in DrawStarts, d \in DrawStrides}
                \cup [1 .. NDRAWS -> RepeatPairs]
CodeFlipChoices == {{}, {5, 64, 127}}
MaskFlipChoices(t) == {{}, {5, 64, 127}, BitsOf(t.mask)}

\* impl Default for IrisCode
DefaultIrisCode == [code |-> ZERO, mask |-> ONES]

NoDist == [done |-> FALSE, ab |-> NaN, ba |-> NaN]
NoAdapter == [done |-> FALSE, code1 |-> DefaultIrisCode, code2 |-> DefaultIrisCode,
              ret |-> NaN]

InitIris ==
    /\ ta = DefaultIrisCode
    /\ ta_kind = "none"
    /\ tb = DefaultIrisCode
    /\ tb_kind = "none"
    /\ tq = DefaultIrisCode
    /\ tq_kind = "none"
    /\ dist = NoDist
    /\ dist_q = NoDist
    /\ adapter = NoAdapter

(***************************************************************************)
(* Template bench actions.                                                 *)
(***************************************************************************)
\* let a = IrisCode::random_rng(rng)
GenerateA ==
    /\ ta_kind = "none"
    /\ \E bits \in CodeChoices, draws \in DrawSeqs :
        ta' = IrisCode_random_rng(bits, draws)
    /\ ta_kind' = "random"
    /\ UNCHANGED <<tb, tb_kind, tq, tq_kind, dist, dist_q, adapter>>
    /\ UNCHANGED mainVars

\* let b = IrisCode::random_rng(rng)
GenerateB ==
    /\ ta_kind = "random"
    /\ tb_kind = "none"
    /\ \E bits \in CodeChoices, draws \in DrawSeqs :
        tb' = IrisCode_random_rng(bits, draws)
    /\ tb_kind' = "random"
    /\ UNCHANGED <<ta, ta_kind, tq, tq_kind, dist, dist_q, adapter>>
    /\ UNCHANGED mainVars

\* let query = a.get_similar_iris(rng); queries are derived once the
\* templates have been drawn.
Similar ==
    /\ ta_kind = "random"
    /\ tb_kind = "random"
    /\ tq_kind = "none"
    /\ \E cf \in CodeFlipChoices, mf \in MaskFlipChoices(ta) :
        tq' = get_similar_iris(ta, cf, mf)
    /\ tq_kind' = "similar"
    /\ UNCHANGED <<ta, ta_kind, tb, tb_kind, dist, dist_q, adapter>>
    /\ UNCHANGED mainVars

\* a.get_distance(&b) and b.get_distance(&a)
Distance ==
    /\ ta_kind # "none"
    /\ tb_kind # "none"
    /\ ~dist.done
    /\ dist' = [done |-> TRUE, ab |-> get_distance(ta, tb), ba |-> get_distance(tb, ta)]
    /\ UNCHANGED <<ta, ta_kind, tb, tb_kind, tq, tq_kind, dist_q, adapter>>
    /\ UNCHANGED mainVars

\* query.get_distance(&a) and a.get_distance(&query)
DistanceQuery ==
    /\ ta_kind # "none"
    /\ tq_kind # "none"
    /\ ~dist_q.done
    /\ dist_q' = [done |-> TRUE, ab |-> get_distance(tq, ta), ba |-> get_distance(ta, tq)]
    /\ UNCHANGED <<ta, ta_kind, tb, tb_kind, tq, tq_kind, dist, adapter>>
    /\ UNCHANGED mainVars

\* HD.eval(&query.as_merged_array(), &a.as_merged_array()): the call the
\* index makes when it compares a query with a stored point.
Eval ==
    /\ ta_kind # "none"
    /\ tq_kind # "none"
    /\ ~adapter.done
    /\ LET va == as_merged_array(tq)
           vb == as_merged_array(ta)
       IN  adapter' = [done |-> TRUE, code1 |-> HD_split(va), code2 |-> HD_split(vb),
                       ret |-> HD_eval(va, vb)]
    /\ UNCHANGED <<ta, ta_kind, tb, tb_kind, tq, tq_kind, dist, dist_q>>
    /\ UNCHANGED mainVars

NextIris == GenerateA \/ GenerateB \/ Similar \/ Distance \/ DistanceQuery \/ Eval

(***************************************************************************)
(* Benchmark harness.                                                      *)
(***************************************************************************)
Ids == 0 .. (N_POINTS - 1)

\* What the workers' generators may deliver in a run: per id, the template
\* IrisCode::random_rng returns in the insert closure.
RngOutcomes ==
    {[i \in Ids |-> IrisCode_random_rng({i, U64_BITS + i}, StrideDraws(i, 1))],
     [i \in Ids |-> IrisCode_random_rng(BitIndex \ {i}, StrideDraws(0, i))]}

\* rand::seq::index::sample(rng, N_POINTS, RANDOM_QUERIES) collected into a
\* HashSet: RANDOM_QUERIES distinct indices below N_POINTS.
SampleChoices == {S \in SUBSET Ids : Cardinality(S) = RANDOM_QUERIES}

\* The samples the model starts from: the runs of consecutive ids.
SampleInputs == {S \in SampleChoices : \E lo \in Ids : S = lo .. (lo + RANDOM_QUERIES - 1)}

NoReport == [evals_read |-> -1, avg_evals |-> -1, recall_num |-> -1, recall_den |-> -1]

InitMain ==
    /\ pc = "insert"
    /\ rng_outcome \in RngOutcomes
    /\ random_query_indices \in SampleInputs
    /\ ins_st = [i \in Ids |-> "todo"]
    /\ ins_code = [i \in Ids |-> DefaultIrisCode]
    /\ random_queries = <<>>
    /\ hnsw_points = <<>>
    /\ hnsw_searching = FALSE
    /\ set_searching_calls = 0
    /\ EVAL_COUNTER = 0
    /\ random_queries_vec = <<>>
    /\ q_st = <<>>
    /\ q_knn = <<>>
    /\ correct = 0
    /\ evals_insert_phase = 0
    /\ evals_query_phase = 0
    /\ report = NoReport

Init == InitIris /\ InitMain

\* Fault: the counter is stored to instead of added to.
FetchAdd_overwrite(old, n) == n

\* AtomicUsize::fetch_add: one indivisible read-modify-write.
FetchAdd(old, n) == old + n

\* Fault: the store is lost.
AtomicStore_dropped(old, val) == old

\* AtomicUsize::store
AtomicStore(old, val) == val

\* Fault: the template is paired with the next id.
Push_shifted(q, code, idx) == Append(q, [code |-> code, idx |-> (idx + 1) % N_POINTS])

\* random_queries.lock().unwrap().push((code.clone(), idx))
Push(q, code, idx) == Append(q, [code |-> code, idx |-> idx])

\* Fault: the loop returns once every closure has started.
ForEachJoined_started(st) == \A i \in DOMAIN st : st[i] # "todo"

\* rayon's for_each returns when the closure has returned for every item.
ForEachJoined(st) == \A i \in DOMAIN st : st[i] = "done"

IndexPanic == -1

\* Fault: an empty result is read as an id that matches no query.
FirstNeighbour_or_none(knn) == IF Len(knn) = 0 THEN N_POINTS ELSE knn[1].d_id

\* knn_neighbours[0].d_id: indexing an empty Vec panics.
FirstNeighbour(knn) == IF Len(knn) = 0 THEN IndexPanic ELSE knn[1].d_id

\* What hnsw.search(query, KNBN, EF_C) may return: at most KNBN neighbours,
\* each an inserted point; which one is the index's (approximate) choice.
SearchResults ==
    UNION {[1 .. n -> {[d_id |-> i] : i \in DOMAIN hnsw_points}] : n \in 0 .. KNBN}

\* The insert closure up to the call of insert_slice: draw the template and,
\* for a sampled id, push it under the lock.
InsertStart(idx) ==
    /\ pc = "insert"
    /\ ins_st[idx] = "todo"
    /\ LET code == rng_outcome[idx]
       IN  /\ ins_code' = [ins_code EXCEPT ![idx] = code]
           /\ random_queries' =
                 IF idx \in random_query_indices
                 THEN Push(random_queries, code, idx)
                 ELSE random_queries
    /\ ins_st' = [ins_st EXCEPT ![idx] = "inserting"]
    /\ UNCHANGED <<pc, rng_outcome, random_query_indices, hnsw_points, hnsw_searching,
                   set_searching_calls, EVAL_COUNTER, random_queries_vec, q_st,
                   q_knn, correct, evals_insert_phase, evals_query_phase, report>>
    /\ UNCHANGED irisVars

\* HD::eval called by the index while it inserts idx: the new point is
\* compared with a point already stored.
InsertEval(idx) ==
    /\ ins_st[idx] = "inserting"
    /\ EVAL_COUNTER < MaxEvals
    /\ DOMAIN hnsw_points # {}
    /\ EVAL_COUNTER' = FetchAdd(EVAL_COUNTER, 1)
    /\ evals_insert_phase' = evals_insert_phase + 1
    /\ UNCHANGED <<pc, rng_outcome, random_query_indices, ins_st, ins_code, random_queries, hnsw_points,
                   hnsw_searching, set_searching_calls, random_queries_vec, q_st,
                   q_knn, correct, evals_query_phase, report>>
    /\ UNCHANGED irisVars

\* insert_slice((&code.as_merged_array(), idx)) returns; bar.inc(1).
InsertReturn(idx) ==
    /\ ins_st[idx] = "inserting"
    /\ hnsw_points' = (idx :> as_merged_array(ins_code[idx])) @@ hnsw_points
    /\ ins_st' = [ins_st EXCEPT ![idx] = "done"]
    /\ UNCHANGED <<pc, rng_outcome, random_query_indices, ins_code, random_queries, hnsw_searching,
                   set_searching_calls, EVAL_COUNTER, random_queries_vec, q_st,
                   q_knn, correct, evals_insert_phase, evals_query_phase, report>>
    /\ UNCHANGED irisVars

\* (0..N_POINTS).into_par_iter().for_each(..) returns; bar.finish().
InsertJoin ==
    /\ pc = "insert"
    /\ ForEachJoined(ins_st)
    /\ pc' = "switch"
    /\ UNCHANGED <<rng_outcome, random_query_indices, ins_st, ins_code, random_queries,
                   hnsw_points, hnsw_searching, set_searching_calls, EVAL_COUNTER,
                   random_queries_vec, q_st, q_knn, correct, evals_insert_phase,
                   evals_query_phase, report>>
    /\ UNCHANGED irisVars

\* hnsw.set_searching_mode(true)
SetSearchingMode ==
    /\ pc = "switch"
    /\ hnsw_searching' = TRUE
    /\ set_searching_calls' = set_searching_calls + 1
    /\ pc' = "reset"
    /\ UNCHANGED <<rng_outcome, random_query_indices, ins_st, ins_code, random_queries,
                   hnsw_points, EVAL_COUNTER, random_queries_vec, q_st, q_knn,
                   correct, evals_insert_phase, evals_query_phase, report>>
    /\ UNCHANGED irisVars

\* EVAL_COUNTER.store(0, Ordering::Relaxed)
ResetCounter ==
    /\ pc = "reset"
    /\ EVAL_COUNTER' = AtomicStore(EVAL_COUNTER, 0)
    /\ pc' = "snapshot"
    /\ UNCHANGED <<rng_outcome, random_query_indices, ins_st, ins_code, random_queries,
                   hnsw_points, hnsw_searching, set_searching_calls, random_queries_vec,
                   q_st, q_knn, correct, evals_insert_phase, evals_query_phase,
                   report>>
    /\ UNCHANGED irisVars

\* let random_queries_vec = random_queries.lock().unwrap().clone();
\* let correct = AtomicUsize::new(0); the parallel query loop is entered.
Snapshot ==
    /\ pc = "snapshot"
    /\ random_queries_vec' = random_queries
    /\ q_st' = [k \in 1 .. Len(random_queries) |-> "todo"]
    /\ q_knn' = [k \in 1 .. Len(random_queries) |-> <<>>]
    /\ correct' = 0
    /\ pc' = "query"
    /\ UNCHANGED <<rng_outcome, random_query_indices, ins_st, ins_code, random_queries,
                   hnsw_points, hnsw_searching, set_searching_calls, EVAL_COUNTER,
                   evals_insert_phase, evals_query_phase, report>>
    /\ UNCHANGED irisVars

\* The query closure up to the call of hnsw.search on the noisy variant.
SearchStart(k) ==
    /\ pc = "query"
    /\ k \in DOMAIN q_st
    /\ q_st[k] = "todo"
    /\ q_st' = [q_st EXCEPT ![k] = "searching"]
    /\ UNCHANGED <<pc, rng_outcome, random_query_indices, ins_st, ins_code, random_queries,
                   hnsw_points, hnsw_searching, set_searching_calls, EVAL_COUNTER,
                   random_queries_vec, q_knn, correct, evals_insert_phase,
                   evals_query_phase, report>>
    /\ UNCHANGED irisVars

\* HD::eval called by the index while it searches for entry k.
SearchEval(k) ==
    /\ k \in DOMAIN q_st
    /\ q_st[k] = "searching"
    /\ EVAL_COUNTER < MaxEvals
    /\ DOMAIN hnsw_points # {}
    /\ EVAL_COUNTER' = FetchAdd(EVAL_COUNTER, 1)
    /\ evals_query_phase' = evals_query_phase + 1
    /\ UNCHANGED <<pc, rng_outcome, random_query_indices, ins_st, ins_code, random_queries,
                   hnsw_points, hnsw_searching, set_searching_calls, random_queries_vec,
                   q_st, q_knn, correct, evals_insert_phase, report>>
    /\ UNCHANGED irisVars

\* hnsw.search returns; the closure indexes the first neighbour, compares
\* its id with the retained id and counts a match; bar.inc(1).
SearchReturn(k) ==
    /\ k \in DOMAIN q_st
    /\ q_st[k] = "searching"
    /\ \E knn_neighbours \in SearchResults :
        /\ q_knn' = [q_knn EXCEPT ![k] = knn_neighbours]
        /\ LET first == FirstNeighbour(knn_neighbours)
               idx == random_queries_vec[k].idx
           IN  IF first = IndexPanic
               THEN /\ q_st' = [q_st EXCEPT ![k] = "panicked"]
                    /\ correct' = correct
               ELSE /\ q_st' = [q_st EXCEPT ![k] = "done"]
                    /\ correct' = IF idx = first THEN FetchAdd(correct, 1) ELSE correct
    /\ UNCHANGED <<pc, rng_outcome, random_query_indices, ins_st, ins_code, random_queries,
                   hnsw_points, hnsw_searching, set_searching_calls, EVAL_COUNTER,
                   random_queries_vec, evals_insert_phase, evals_query_phase, report>>
    /\ UNCHANGED irisVars

\* random_queries_vec.par_iter().for_each(..) returns; bar.finish().
QueryJoin ==
    /\ pc = "query"
    /\ ForEachJoined(q_st)
    /\ pc' = "report_evals"
    /\ UNCHANGED <<rng_outcome, random_query_indices, ins_st, ins_code, random_queries,
                   hnsw_points, hnsw_searching, set_searching_calls, EVAL_COUNTER,
                   random_queries_vec, q_st, q_knn, correct, evals_insert_phase,
                   evals_query_phase, report>>
    /\ UNCHANGED irisVars

\* A closure panicked: for_each resumes the panic in main once the closures
\* that are running have returned, and main unwinds.
QueryAbort ==
    /\ pc = "query"
    /\ \E k \in DOMAIN q_st : q_st[k] = "panicked"
    /\ \A k \in DOMAIN q_st : q_st[k] # "searching"
    /\ pc' = "aborted"
    /\ UNCHANGED <<rng_outcome, random_query_indices, ins_st, ins_code, random_queries,
                   hnsw_points, hnsw_searching, set_searching_calls, EVAL_COUNTER,
                   random_queries_vec, q_st, q_knn, correct, evals_insert_phase,
                   evals_query_phase, report>>
    /\ UNCHANGED irisVars

\* println!("ØEvals: {}", EVAL_COUNTER.load(..) / random_queries_vec.len())
ReportEvals ==
    /\ pc = "report_evals"
    /\ IF Len(random_queries_vec) = 0
       THEN /\ pc' = "aborted"
            /\ report' = report
       ELSE /\ pc' = "report_recall"
            /\ report' = [report EXCEPT
                            !.evals_read = EVAL_COUNTER,
                            !.avg_evals = EVAL_COUNTER \div Len(random_queries_vec)]
    /\ UNCHANGED <<rng_outcome, random_query_indices, ins_st, ins_code, random_queries,
                   hnsw_points, hnsw_searching, set_searching_calls, EVAL_COUNTER,
                   random_queries_vec, q_st, q_knn, correct, evals_insert_phase,
                   evals_query_phase>>
    /\ UNCHANGED irisVars

\* println!("Recall: {:.4}%", correct.load(..) as f32 / len as f32 * 100.0)
ReportRecall ==
    /\ pc = "report_recall"
    /\ report' = [report EXCEPT !.recall_num = correct,
                                !.recall_den = Len(random_queries_vec)]
    /\ pc' = "done"
    /\ UNCHANGED <<rng_outcome, random_query_indices, ins_st, ins_code, random_queries,
                   hnsw_points, hnsw_searching, set_searching_calls, EVAL_COUNTER,
                   random_queries_vec, q_st, q_knn, correct, evals_insert_phase,
                   evals_query_phase>>
    /\ UNCHANGED irisVars

InsertWorker == \E idx \in Ids : InsertStart(idx) \/ InsertEval(idx) \/ InsertReturn(idx)
QueryWorker == \E k \in 1 .. RANDOM_QUERIES : SearchStart(k) \/ SearchEval(k) \/ SearchReturn(k)

Next ==
    \/ InsertWorker
    \/ InsertJoin
    \/ SetSearchingMode
    \/ ResetCounter
    \/ Snapshot
    \/ QueryWorker
    \/ QueryJoin
    \/ QueryAbort
    \/ ReportEvals
    \/ ReportRecall

Spec == Init /\ [][Next]_vars
\* The template bench alone: the harness stays in its initial state.
InitBench ==
    /\ Init
    /\ random_query_indices = 0 .. (RANDOM_QUERIES - 1)
    /\ \A i \in Ids : rng_outcome[i].code = ArrayOfBits({i, U64_BITS + i})
SpecIris == InitBench /\ [][NextIris]_vars

(***************************************************************************)
(* Properties of the benchmark harness (checked under Spec).               *)
(***************************************************************************)
AfterSwitch == {"reset", "snapshot", "query", "report_evals", "report_recall", "done",
                "aborted"}
AfterQueryPhase == {"report_evals", "report_recall", "done"}

\* C1: in every interleaving, set_searching_mode(true) is called only once
\* every one of the N_POINTS inserts has returned, it is called exactly once,
\* every search starts after it, and no insert is in flight or issued after it.
C1_InsertsThenSwitchThenSearches ==
    /\ set_searching_calls <= 1
    /\ pc \in AfterSwitch => set_searching_calls = 1
    /\ (set_searching_calls >= 1 \/ hnsw_searching) =>
          /\ \A i \in Ids : ins_st[i] = "done"
          /\ DOMAIN hnsw_points = Ids
    /\ \A k \in DOMAIN q_st :
          q_st[k] # "todo" => (set_searching_calls = 1 /\ hnsw_searching)

C1_Witness ==
    /\ set_searching_calls = 1
    /\ \E k \in DOMAIN q_st : q_st[k] = "searching"
    /\ \E k \in DOMAIN q_st : q_st[k] = "done"
    /\ DOMAIN hnsw_points = Ids

SnapshotTaken == {"query", "report_evals", "report_recall", "done", "aborted"}

\* C2: for every interleaving of the insert workers the snapshot holds exactly
\* RANDOM_QUERIES entries, one per sampled id and none for another id, each
\* pairing the id with the template stored in the index under that id, and no
\* step of the query phase or after changes the snapshot.
C2_SnapshotExact ==
    /\ [](pc \in SnapshotTaken =>
            /\ Len(random_queries_vec) = RANDOM_QUERIES
            /\ {random_queries_vec[k].idx : k \in DOMAIN random_queries_vec}
                  = random_query_indices
            /\ \A k \in DOMAIN random_queries_vec :
                  /\ random_queries_vec[k].idx \in DOMAIN hnsw_points
                  /\ HD_split(hnsw_points[random_queries_vec[k].idx])
                        = random_queries_vec[k].code)
    /\ [][(pc \in SnapshotTaken) => (random_queries_vec' = random_queries_vec)]_vars

C2_Witness ==
    /\ pc = "done"
    /\ Len(random_queries_vec) = RANDOM_QUERIES
    /\ \E j, k \in DOMAIN random_queries_vec :
          /\ random_queries_vec[j].code # random_queries_vec[k].code
          /\ random_queries_vec[j].idx > random_queries_vec[k].idx
          /\ j < k

Matched == {k \in DOMAIN q_st :
               /\ q_st[k] = "done"
               /\ Len(q_knn[k]) > 0
               /\ q_knn[k][1].d_id = random_queries_vec[k].idx}

\* C3: the correct-match counter equals the number of finished queries whose
\* top-1 id is the retained id, at every moment and so when the query phase
\* has finished, whatever the order of the workers; it never exceeds the
\* number of queries.
C3_CorrectCountsMatches ==
    /\ correct <= Len(random_queries_vec)
    /\ correct = Cardinality(Matched)
    /\ pc \in AfterQueryPhase => correct = Cardinality(Matched)

C3_Witness ==
    /\ pc = "done"
    /\ correct >= 2
    /\ report.recall_num = correct

\* C4: the evaluation counter is reset after every insert has returned and
\* before any search has started, and from then on holds the number of
\* HD::eval calls of the query phase: the value read for the report is that
\* number and includes no evaluation made while inserting.
C4_EvalCounterCountsQueryPhase ==
    /\ pc = "snapshot" =>
          /\ EVAL_COUNTER = 0
          /\ \A i \in Ids : ins_st[i] = "done"
          /\ q_st = <<>>
    /\ pc \in SnapshotTaken => EVAL_COUNTER = evals_query_phase
    /\ pc \in {"report_recall", "done"} => report.evals_read = evals_query_phase

C4_Witness ==
    /\ pc = "done"
    /\ evals_insert_phase > 0
    /\ evals_query_phase > 0
    /\ report.evals_read = evals_query_phase

\* C8: once a search has returned an empty result its closure has panicked,
\* the run is in the query phase or aborted, never in a reporting state, and
\* nothing has been printed: the query is not skipped.
C8_EmptyResultAborts ==
    \A k \in DOMAIN q_st :
        (q_st[k] \in {"done", "panicked"} /\ Len(q_knn[k]) = 0) =>
            /\ q_st[k] = "panicked"
            /\ pc \in {"query", "aborted"}
            /\ report = NoReport

C8_Witness ==
    /\ pc = "aborted"
    /\ \E k \in DOMAIN q_st : q_st[k] = "panicked" /\ Len(q_knn[k]) = 0
    /\ \E k \in DOMAIN q_st : q_st[k] = "done"

(***************************************************************************)
(* Properties of the templates (checked under SpecIris).                   *)
(***************************************************************************)
\* C5: splitting as_merged_array() of a template at the midpoint, as HD::eval
\* does, gives back the template's code and mask bit for bit.
C5_MergeSplitRoundTrip ==
    adapter.done => (adapter.code1 = tq /\ adapter.code2 = ta)

C5_Witness ==
    /\ adapter.done
    /\ adapter.code1 = tq
    /\ tq.code # tq.mask
    /\ tq # ta
    /\ ta.code # ZERO

PairedMask(t) ==
    \A k \in PairIndex : get_bit(t.mask, 2 * k) = get_bit(t.mask, 2 * k + 1)

\* C6: after random_rng, mask bits 2k and 2k+1 are both clear or both set for
\* every pair index k, also when draws repeat a pair index.
C6_MaskPairsInLockstep ==
    /\ ta_kind = "random" => PairedMask(ta)
    /\ tb_kind = "random" => PairedMask(tb)

C6_Witness ==
    /\ ta_kind = "random"
    /\ tb_kind = "random"
    /\ count_ones(ta.mask) = IRIS_CODE_SIZE - 2
    /\ ~get_bit(tb.mask, 62) /\ ~get_bit(tb.mask, 63) /\ ~get_bit(tb.mask, 64)

\* C7: get_distance(a, b) == get_distance(b, a) for every pair of templates
\* (== of f64).
C7_DistanceSymmetric ==
    /\ dist.done => F64Eq(dist.ab, dist.ba)
    /\ dist_q.done => F64Eq(dist_q.ab, dist_q.ba)

\* C9: for two templates whose masks share no position, get_distance fails
\* fast or returns a defined sentinel instead of dividing by zero.
C9_DegenerateMaskGuarded ==
    (dist_q.done /\ count_ones(BitAnd(tq.mask, ta.mask)) = 0) =>
        dist_q.ab.class \in {"panic", "sentinel"}

Cleared(t) == IRIS_CODE_SIZE - count_ones(t.mask)

\* C10: a template from random_rng has between 2 and 12 cleared mask bits, so
\* two of them share at least 104 valid positions and their distance is
\* never a division by zero.
C10_RandomTemplatesOverlap ==
    /\ ta_kind = "random" => Cleared(ta) \in 2 .. 12
    /\ tb_kind = "random" => Cleared(tb) \in 2 .. 12
    /\ (ta_kind = "random" /\ tb_kind = "random") =>
          /\ count_ones(BitAnd(ta.mask, tb.mask)) >= 104
          /\ dist.done => (dist.ab.class = "finite" /\ dist.ba.class = "finite"
                           /\ dist.ab.den >= 104)

\* ... while a noisy variant has no such bound: here it shares no valid
\* position with the template it was derived from.
C10_Witness ==
    /\ dist.done
    /\ Cleared(ta) = 12
    /\ Cleared(tb) = 12
    /\ dist.ab.den = 104
    /\ tq_kind = "similar"
    /\ count_ones(BitAnd(tq.mask, ta.mask)) = 0

====
